---- MODULE Spec2Model ----
(***************************************************************************)
(* flappycube (src/src/main.rs): the game session as a state machine.      *)
(*                                                                         *)
(* Numbers.  The program computes in f32.  A position, size or velocity of *)
(* the player is an integer counting 1/Scale of a unit (Scale = 2^17); the *)
(* scroll speed, which stays in (-2, -1], counts 1/SpeedScale of a unit    *)
(* (SpeedScale = 2^23, the f32 spacing of that range).  An f32 addition    *)
(* rounds its exact sum to the f32 spacing at the sum's magnitude, to      *)
(* nearest, ties to even (RoundF32); below 64 units, where f32 is finer    *)
(* than 1/Scale, the sum is rounded to 1/Scale instead.  `x as i32` is     *)
(* Trunc: truncation toward zero.                                          *)
(*                                                                         *)
(* Randomness.  rand::thread_rng() draws are nondeterministic choices from *)
(* small sets (Draws for a pillar's colour and height, every palette index *)
(* for the player's colour).                                               *)
(*                                                                         *)
(* Input.  Key events arrive between updates.  The jump key autorepeats:   *)
(* while it is held (space_held) a key_down_event(Space) is delivered      *)
(* before every update; the handler ignores its `_repeat` argument.        *)
(* During play the player presses the colour keys only when a pillar is at *)
(* most ReactDistance ahead, presses the jump key only then or before the  *)
(* first update of the session, and lets go of the jump key only once the  *)
(* session is over.                                                        *)
(***************************************************************************)
EXTENDS Integers, Sequences, FiniteSets

(* ------------------------------ constants ------------------------------ *)

\* position unit: one program unit (a pixel) is Scale model units (2^17)
Scale == 131072

Px(n) == n * Scale

\* speed unit: one program unit is SpeedScale model units (2^23)
SpeedScale == 8388608

Sp(n) == n * SpeedScale

\* speed units in a position unit
SpeedPerPos == SpeedScale \div Scale

WINDOW_WIDTH == 800
WINDOW_HEIGHT == 600
NUM_PILLARS == 5
PILLAR_GAP == 220
PILLAR_DISTANCE == 300
PILLAR_WIDTH == 80
\* -0.0004 as f32 is -3355.44 / SpeedScale; its sum with a speed in (-2, -1]
\* rounds to the speed less 3355 / SpeedScale
PILLAR_ACCELERATION == -3355
GRAVITY == 1
JUMP_AMOUNT == -10
\* MainState::new: pillar_speed: -1.0
PILLAR_SPEED_INIT == -1
\* MainState::new: the player's body is 50.0 x 50.0
PLAYER_SIZE == 50

\* the palette of MainState::new, as 8-bit RGBA (0.13725491 = 35/255, ...)
colors_list ==
    << <<35, 61, 77, 255>>,
       <<254, 127, 45, 255>>,
       <<252, 202, 70, 255>>,
       <<161, 193, 129, 255>>,
       <<97, 155, 138, 255>> >>

\* colors_list.len()
ColorsLen == Len(colors_list)

\* colors_list[i], i counted from 0 as in the program
ColorAt(i) == colors_list[i + 1]

KeyCodes == {"Space", "LControl", "RControl", "Return"}

(* ------------------------------- bounds -------------------------------- *)

\* updates modelled per session (pillar_speed has no cap in the program)
MaxTicks == 1300
\* the two (colour index, gap-top height) pairs a pillar's random draw may give
ColorA == 0
HeightA == 100
ColorB == 3
HeightB == 300
\* during play the colour keys go down only when a pillar is at most this
\* far ahead of the player, the jump key only then or at the session's start
ReactDistance == 20
\* rendered width of the intro caption (texts.intro.width(ctx)); it depends
\* on the font
IntroWidth == 300

Draws ==
    { [color |-> ColorAt(ColorA), height |-> Px(HeightA)],
      [color |-> ColorAt(ColorB), height |-> Px(HeightB)] }

\* the palette indices the draw of the player's colour may give
IndexDraws == {ColorA, ColorB}

PillarIdx == 0 .. (NUM_PILLARS - 1)

(* -------------------------------- state -------------------------------- *)

VARIABLES
    player,          \* MainState.player: color_index, color, body, velocity
    pillars,         \* MainState.pillars, indexed from 0
    pillar_speed,    \* MainState.pillar_speed
    game_over,       \* MainState.game_over
    score,           \* MainState.score
    score_text,      \* MainState.texts.score: the decimal digits shown
    intro_pos,       \* MainState.texts.intro_pos
    intro_offscreen, \* MainState.texts.intro_offscreen
    passes,          \* history: passes[i] = score increments on account of
                     \* pillar i since it was last placed (new or recycle)
    space_held       \* environment: the jump key is down (autorepeating)

progvars ==
    << player, pillars, pillar_speed, game_over, score, score_text,
       intro_pos, intro_offscreen >>

vars ==
    << player, pillars, pillar_speed, game_over, score, score_text,
       intro_pos, intro_offscreen, passes, space_held >>

(* ------------------------------- helpers ------------------------------- *)

\* graphics::Rect::new(x, y, w, h)
Rect(x, y, w, h) == [x |-> x, y |-> y, w |-> w, h |-> h]

\* the f32 spacing, in position units, at magnitude mag (position units)
Ulp(mag) ==
    IF mag < Px(128) THEN 1
    ELSE IF mag < Px(256) THEN 2
    ELSE IF mag < Px(512) THEN 4
    ELSE IF mag < Px(1024) THEN 8
    ELSE IF mag < Px(2048) THEN 16
    ELSE IF mag < Px(4096) THEN 32
    ELSE IF mag < Px(8192) THEN 64
    ELSE 128

\* the f32 nearest to the exact value t + r / SpeedPerPos position units
\* (0 <= r < SpeedPerPos), ties to the even neighbour
RoundF32(t, r) ==
    LET mag == IF t >= 0 THEN t ELSE IF r = 0 THEN -t ELSE -t - 1
        g == Ulp(mag)
        lo == (t \div g) * g
        rem == SpeedPerPos * (t - lo) + r
        half == (SpeedPerPos \div 2) * g
    IN  IF rem < half THEN lo
        ELSE IF rem > half THEN lo + g
        ELSE IF (lo \div g) % 2 = 0 THEN lo
        ELSE lo + g

\* RoundF32 as a function of its two arguments
F32[t \in Int, r \in 0 .. (SpeedPerPos - 1)] == RoundF32(t, r)

\* a + b in f32, for two positions or sizes
Add(a, b) == F32[a + b, 0]

\* x + speed in f32, for a position x and the scroll speed
AddSpeed(x, speed) == F32[x + speed \div SpeedPerPos, speed % SpeedPerPos]

\* a / b in f32, for a position a and a whole number b
Div(a, b) == F32[a \div b, ((a % b) * SpeedPerPos) \div b]

\* `v as i32` for an f32 v: truncation toward zero
Trunc(v) == IF v >= 0 THEN v \div Scale ELSE -((-v) \div Scale)

\* u32::to_string, as the sequence of decimal digits
RECURSIVE to_string(_)
to_string(n) ==
    IF n < 10 THEN << n >> ELSE Append(to_string(n \div 10), n % 10)

\* collide_rect without its last comparison (rect1bottom > rect2.y)
collide_rect_NoBottomEdge(rect1, rect2) ==
    LET rect1right == Add(rect1.x, rect1.w)
        rect2right == Add(rect2.x, rect2.w)
        rect2bottom == Add(rect2.y, rect2.h)
    IN  /\ rect1.x < rect2right
        /\ rect1right > rect2.x
        /\ rect1.y < rect2bottom

collide_rect(rect1, rect2) ==
    LET rect1right == Add(rect1.x, rect1.w)
        rect1bottom == Add(rect1.y, rect1.h)
        rect2right == Add(rect2.x, rect2.w)
        rect2bottom == Add(rect2.y, rect2.h)
    IN  /\ rect1.x < rect2right
        /\ rect1right > rect2.x
        /\ rect1.y < rect2bottom
        /\ rect1bottom > rect2.y

(* ------------------------------- Pillar -------------------------------- *)

\* the check of line 80 on the block's left edge instead of its right edge
CrossedScreen_LeftEdge(top_x) == top_x <= 0

\* Pillar::update, line 80: has the pillar (already moved) crossed the screen
CrossedScreen(top_x) == Add(top_x, Px(PILLAR_WIDTH)) <= 0

\* Pillar::update wrapping a pillar without lines 90-91: the bottom block
\* keeps its y and height
PillarUpdate_StaleBottom(pillar, draw, last_x, speed) ==
    LET moved == [pillar EXCEPT !.top.x = AddSpeed(@, speed),
                                !.bottom.x = AddSpeed(@, speed)]
    IN  IF CrossedScreen(moved.top.x)
        THEN [color |-> draw.color,
              top |-> [moved.top EXCEPT
                          !.x = Add(last_x, Px(PILLAR_DISTANCE)),
                          !.h = draw.height],
              bottom |-> [moved.bottom EXCEPT
                          !.x = Add(last_x, Px(PILLAR_DISTANCE))]]
        ELSE moved

\* Pillar::update(colors_list, last_x, speed); draw is what the two
\* gen_range calls return should the pillar be wrapped
PillarUpdate(pillar, draw, last_x, speed) ==
    LET moved == [pillar EXCEPT !.top.x = AddSpeed(@, speed),
                                !.bottom.x = AddSpeed(@, speed)]
    IN  IF CrossedScreen(moved.top.x)
        THEN [color |-> draw.color,
              top |-> [moved.top EXCEPT
                          !.x = Add(last_x, Px(PILLAR_DISTANCE)),
                          !.h = draw.height],
              bottom |-> [moved.bottom EXCEPT
                          !.x = Add(last_x, Px(PILLAR_DISTANCE)),
                          !.y = draw.height + Px(PILLAR_GAP),
                          !.h = Px(WINDOW_HEIGHT) - (draw.height + Px(PILLAR_GAP))]]
        ELSE moved

\* lines 215-242 with the pillars PILLAR_WIDTH apart
NewPillar_WidthApart(i, draw) ==
    [color |-> draw.color,
     top |-> Rect(Px(WINDOW_WIDTH) + Px(PILLAR_WIDTH) * i, 0,
                  Px(PILLAR_WIDTH), draw.height),
     bottom |-> Rect(Px(WINDOW_WIDTH) + Px(PILLAR_WIDTH) * i,
                     draw.height + Px(PILLAR_GAP),
                     Px(PILLAR_WIDTH),
                     Px(WINDOW_HEIGHT) - (draw.height + Px(PILLAR_GAP)))]

\* MainState::new, lines 215-242: pillar i of a new session
NewPillar(i, draw) ==
    [color |-> draw.color,
     top |-> Rect(Px(WINDOW_WIDTH) + Px(PILLAR_DISTANCE) * i, 0,
                  Px(PILLAR_WIDTH), draw.height),
     bottom |-> Rect(Px(WINDOW_WIDTH) + Px(PILLAR_DISTANCE) * i,
                     draw.height + Px(PILLAR_GAP),
                     Px(PILLAR_WIDTH),
                     Px(WINDOW_HEIGHT) - (draw.height + Px(PILLAR_GAP)))]

(* ------------------------------- Player -------------------------------- *)

\* Player::update, line 132: the pillar is over the player's x-extent
InsidePillar(body, pillar) ==
    /\ body.x < Add(pillar.top.x, pillar.top.w)
    /\ Add(body.x, body.w) > pillar.top.x

\* lines 133-144 without the colour test of line 133
Crash_BlocksOnly(p, pillar) ==
    collide_rect(p.body, pillar.top) \/ collide_rect(p.body, pillar.bottom)

\* Player::update, lines 133-144: the pillar ends the game
Crash(p, pillar) ==
    IF pillar.color # p.color
    THEN TRUE
    ELSE collide_rect(p.body, pillar.top) \/ collide_rect(p.body, pillar.bottom)

\* line 146 with the middles compared to within one unit
MiddleAligned_Near(body, pillar) ==
    LET d == (Trunc(body.x) + Trunc(body.w \div 2))
               - (Trunc(pillar.top.x) + Trunc(pillar.top.w \div 2))
    IN  -1 <= d /\ d <= 1

\* Player::update, line 146: the (horizontal) middle parts align
MiddleAligned(body, pillar) ==
    Trunc(body.x) + Trunc(body.w \div 2)
        = Trunc(pillar.top.x) + Trunc(pillar.top.w \div 2)

\* Player::update, lines 145-152: the pillar counts for the score
Scores(p, pillar) ==
    InsidePillar(p.body, pillar) /\ MiddleAligned(p.body, pillar)

\* Player::update, lines 131-154: the loop over the pillars, from pillar i on,
\* as it sets game_over
RECURSIVE ScanGameOver(_, _, _, _)
ScanGameOver(p, ps, i, over) ==
    IF i >= NUM_PILLARS
    THEN over
    ELSE ScanGameOver(p, ps, i + 1,
                      IF InsidePillar(p.body, ps[i]) /\ Crash(p, ps[i])
                      THEN TRUE
                      ELSE over)

\* Player::update, lines 131-154: the loop over the pillars, from pillar i on,
\* as it counts the score
RECURSIVE ScanScore(_, _, _, _)
ScanScore(p, ps, i, sc) ==
    IF i >= NUM_PILLARS
    THEN sc
    ELSE ScanScore(p, ps, i + 1, IF Scores(p, ps[i]) THEN sc + 1 ELSE sc)

\* lines 155-161 with the floor reversing the velocity
Fall_Bounce(p) ==
    LET vy == Add(p.velocity.y, Px(GRAVITY))
        y == Add(p.body.y, vy)
    IN  [p EXCEPT !.body.y = y,
                  !.velocity.y =
                      IF Add(y, p.body.h) >= Px(WINDOW_HEIGHT)
                      THEN -vy
                      ELSE vy]

\* lines 155-161 with the floor stopping the player (velocity 0)
Fall_ZeroAtFloor(p) ==
    LET vy == Add(p.velocity.y, Px(GRAVITY))
        y == Add(p.body.y, vy)
    IN  [p EXCEPT !.body.y = y,
                  !.velocity.y =
                      IF Add(y, p.body.h) >= Px(WINDOW_HEIGHT)
                      THEN 0
                      ELSE vy]

\* Player::update, lines 155-161: gravity, and the floor
Fall(p) ==
    LET vy == Add(p.velocity.y, Px(GRAVITY))
        y == Add(p.body.y, vy)
    IN  [p EXCEPT !.body.y = y,
                  !.velocity.y =
                      IF Add(y, p.body.h) >= Px(WINDOW_HEIGHT)
                      THEN -Px(GRAVITY)
                      ELSE vy]

\* Player::update(pillars, game_over, sounds, score): the new player,
\* game_over and score
PlayerUpdate(p, ps, over, sc) ==
    [player |-> Fall(p),
     game_over |-> ScanGameOver(p, ps, 0, over),
     score |-> ScanScore(p, ps, 0, sc)]

(* ------------------------------ MainState ------------------------------ *)

\* MainState::new, lines 244-267
NewPlayer(color_index) ==
    [color_index |-> color_index,
     color |-> ColorAt(color_index),
     body |-> Rect(Px(WINDOW_WIDTH) \div 2, Px(WINDOW_HEIGHT) \div 2,
                   Px(PLAYER_SIZE), Px(PLAYER_SIZE)),
     velocity |-> [x |-> 0, y |-> 0]]

\* MainState::new, lines 282-285 (WINDOW_HEIGHT / 2.2)
NewIntroPos ==
    [x |-> Div(Px(WINDOW_WIDTH), 3), y |-> Div(Px(WINDOW_HEIGHT) * 10, 22)]

\* MainState::new(ctx): the program state of a new session, given the
\* random draws
NewState(draws, color_index) ==
    /\ player' = NewPlayer(color_index)
    /\ pillars' = [i \in PillarIdx |-> NewPillar(i, draws[i])]
    /\ pillar_speed' = Sp(PILLAR_SPEED_INIT)
    /\ game_over' = FALSE
    /\ score' = 0
    /\ score_text' = to_string(0)
    /\ intro_pos' = NewIntroPos
    /\ intro_offscreen' = FALSE

Init ==
    /\ \E draws \in [PillarIdx -> Draws], color_index \in IndexDraws :
          /\ player = NewPlayer(color_index)
          /\ pillars = [i \in PillarIdx |-> NewPillar(i, draws[i])]
    /\ pillar_speed = Sp(PILLAR_SPEED_INIT)
    /\ game_over = FALSE
    /\ score = 0
    /\ score_text = to_string(0)
    /\ intro_pos = NewIntroPos
    /\ intro_offscreen = FALSE
    /\ passes = [i \in PillarIdx |-> 0]
    /\ space_held = FALSE

\* MainState::update, lines 313-318: the x of the pillar in front of pillar i,
\* read from the clone taken before the loop
LastX(old, i) ==
    IF i = 0 THEN old[NUM_PILLARS - 1].top.x ELSE old[i - 1].top.x

\* the pillars the update of this tick wraps back to the right
Wrapping(speed) ==
    {i \in PillarIdx : CrossedScreen(AddSpeed(pillars[i].top.x, speed))}

\* lines 326-332 with a caption that, once off-screen, comes back in from
\* the right like a pillar
IntroUpdate_Recycle(speed) ==
    IF ~intro_offscreen
    THEN /\ intro_pos' = [intro_pos EXCEPT !.x = AddSpeed(@, speed)]
         /\ intro_offscreen' =
                (Add(AddSpeed(intro_pos.x, speed), Px(IntroWidth)) <= 0)
    ELSE /\ intro_pos' = [intro_pos EXCEPT !.x = Px(WINDOW_WIDTH)]
         /\ intro_offscreen' = FALSE

\* MainState::update, lines 326-332
IntroUpdate(speed) ==
    IF ~intro_offscreen
    THEN /\ intro_pos' = [intro_pos EXCEPT !.x = AddSpeed(@, speed)]
         /\ intro_offscreen' =
                (Add(AddSpeed(intro_pos.x, speed), Px(IntroWidth)) <= 0)
    ELSE UNCHANGED << intro_pos, intro_offscreen >>

\* lines 306-332 with the speed increased (line 307) after the pillars and
\* the caption have moved
UpdatePlaying_AccelerateLast ==
    \E speed \in {pillar_speed} :
    \E wrapping \in {Wrapping(speed)} :
    \E draws \in [wrapping -> Draws] :
    \E moved \in
        {[i \in PillarIdx |->
              PillarUpdate(pillars[i],
                           IF i \in wrapping
                           THEN draws[i]
                           ELSE [color |-> pillars[i].color,
                                 height |-> pillars[i].top.h],
                           LastX(pillars, i), speed)]} :
    \E r \in {PlayerUpdate(player, moved, game_over, score)} :
        /\ pillar_speed' = pillar_speed + PILLAR_ACCELERATION
        /\ pillars' = moved
        /\ player' = r.player
        /\ game_over' = r.game_over
        /\ score' = r.score
        /\ score_text' = to_string(r.score)
        /\ IntroUpdate(speed)
        /\ passes' =
               [i \in PillarIdx |->
                   IF Scores(player, moved[i])
                   THEN (IF i \in wrapping THEN 0 ELSE passes[i]) + 1
                   ELSE (IF i \in wrapping THEN 0 ELSE passes[i])]

\* MainState::update, lines 306-332: the body of `if !self.game_over`; speed
\* is the new pillar_speed, moved the pillars after their update, r the
\* outcome of the player's update
UpdatePlaying ==
    \E speed \in {pillar_speed + PILLAR_ACCELERATION} :
    \E wrapping \in {Wrapping(speed)} :
    \E draws \in [wrapping -> Draws] :
    \E moved \in
        {[i \in PillarIdx |->
              PillarUpdate(pillars[i],
                           IF i \in wrapping
                           THEN draws[i]
                           ELSE [color |-> pillars[i].color,
                                 height |-> pillars[i].top.h],
                           LastX(pillars, i), speed)]} :
    \E r \in {PlayerUpdate(player, moved, game_over, score)} :
        /\ pillar_speed' = speed
        /\ pillars' = moved
        /\ player' = r.player
        /\ game_over' = r.game_over
        /\ score' = r.score
        /\ score_text' = to_string(r.score)
        /\ IntroUpdate(speed)
        /\ passes' =
               [i \in PillarIdx |->
                   IF Scores(player, moved[i])
                   THEN (IF i \in wrapping THEN 0 ELSE passes[i]) + 1
                   ELSE (IF i \in wrapping THEN 0 ELSE passes[i])]

\* the update with the test of line 305 inverted
Update_Inverted ==
    IF game_over
    THEN UpdatePlaying
    ELSE UNCHANGED << progvars, passes >>

\* the update without the test of line 305
Update_Unguarded == UpdatePlaying

\* MainState::update(ctx): one pass of the fixed-timestep loop
Update ==
    IF ~game_over
    THEN UpdatePlaying
    ELSE UNCHANGED << progvars, passes >>

\* a reset that rebuilds the player and the pillars only
Reset_Partial ==
    /\ \E draws \in [PillarIdx -> Draws], color_index \in IndexDraws :
          /\ player' = NewPlayer(color_index)
          /\ pillars' = [i \in PillarIdx |-> NewPillar(i, draws[i])]
    /\ game_over' = FALSE
    /\ UNCHANGED << pillar_speed, score, score_text, intro_pos,
                    intro_offscreen >>
    /\ passes' = [i \in PillarIdx |-> 0]

\* MainState::reset(ctx)
Reset ==
    /\ \E draws \in [PillarIdx -> Draws], color_index \in IndexDraws :
          NewState(draws, color_index)
    /\ passes' = [i \in PillarIdx |-> 0]

\* the colour switch with the index wrapped one entry early
SwitchColor_WrapEarly(p) ==
    LET ci == (p.color_index + 1) % (ColorsLen - 1)
    IN  [p EXCEPT !.color_index = ci, !.color = ColorAt(ci)]

\* key_down_event, lines 382-384: the player after a colour switch
SwitchColor(p) ==
    LET ci == (p.color_index + 1) % ColorsLen
    IN  [p EXCEPT !.color_index = ci, !.color = ColorAt(ci)]

\* key_down_event whose jump adds JUMP_AMOUNT to the velocity
KeyDownEvent_JumpAdds(keycode) ==
    IF ~game_over
    THEN IF keycode = "Space"
         THEN /\ player' = [player EXCEPT !.velocity.y = @ + Px(JUMP_AMOUNT)]
              /\ UNCHANGED << pillars, pillar_speed, game_over, score,
                              score_text, intro_pos, intro_offscreen, passes >>
         ELSE IF keycode = "LControl" \/ keycode = "RControl"
         THEN /\ player' = SwitchColor(player)
              /\ UNCHANGED << pillars, pillar_speed, game_over, score,
                              score_text, intro_pos, intro_offscreen, passes >>
         ELSE UNCHANGED << progvars, passes >>
    ELSE IF keycode = "Return"
         THEN Reset
         ELSE UNCHANGED << progvars, passes >>

\* key_down_event whose colour switch moves the index but not the colour
KeyDownEvent_StaleColor(keycode) ==
    IF ~game_over
    THEN IF keycode = "Space"
         THEN /\ player' = [player EXCEPT !.velocity.y = Px(JUMP_AMOUNT)]
              /\ UNCHANGED << pillars, pillar_speed, game_over, score,
                              score_text, intro_pos, intro_offscreen, passes >>
         ELSE IF keycode = "LControl" \/ keycode = "RControl"
         THEN /\ player' =
                    [player EXCEPT
                        !.color_index = (player.color_index + 1) % ColorsLen]
              /\ UNCHANGED << pillars, pillar_speed, game_over, score,
                              score_text, intro_pos, intro_offscreen, passes >>
         ELSE UNCHANGED << progvars, passes >>
    ELSE IF keycode = "Return"
         THEN Reset
         ELSE UNCHANGED << progvars, passes >>

\* key_down_event with the restart key tested before game_over
KeyDownEvent_RestartAnytime(keycode) ==
    IF keycode = "Return"
    THEN Reset
    ELSE IF ~game_over
    THEN IF keycode = "Space"
         THEN /\ player' = [player EXCEPT !.velocity.y = Px(JUMP_AMOUNT)]
              /\ UNCHANGED << pillars, pillar_speed, game_over, score,
                              score_text, intro_pos, intro_offscreen, passes >>
         ELSE IF keycode = "LControl" \/ keycode = "RControl"
         THEN /\ player' = SwitchColor(player)
              /\ UNCHANGED << pillars, pillar_speed, game_over, score,
                              score_text, intro_pos, intro_offscreen, passes >>
         ELSE UNCHANGED << progvars, passes >>
    ELSE UNCHANGED << progvars, passes >>

\* key_down_event(ctx, keycode, _keymods, _repeat)
KeyDownEvent(keycode) ==
    IF ~game_over
    THEN IF keycode = "Space"
         THEN /\ player' = [player EXCEPT !.velocity.y = Px(JUMP_AMOUNT)]
              /\ UNCHANGED << pillars, pillar_speed, game_over, score,
                              score_text, intro_pos, intro_offscreen, passes >>
         ELSE IF keycode = "LControl" \/ keycode = "RControl"
         THEN /\ player' = SwitchColor(player)
              /\ UNCHANGED << pillars, pillar_speed, game_over, score,
                              score_text, intro_pos, intro_offscreen, passes >>
         ELSE UNCHANGED << progvars, passes >>
    ELSE IF keycode = "Return"
         THEN Reset
         ELSE UNCHANGED << progvars, passes >>

\* key_up_event(ctx, keycode, _keymods): empty
KeyUpEvent(keycode) == UNCHANGED << progvars, passes >>

(* ----------------------------- environment ----------------------------- *)

\* a new session: no update has run yet
AtStart == pillar_speed = Sp(PILLAR_SPEED_INIT)

\* a pillar is ahead of the player, at most ReactDistance away
PillarAhead ==
    \E i \in PillarIdx :
        LET ahead == pillars[i].top.x - (player.body.x + player.body.w)
        IN  0 <= ahead /\ ahead <= Px(ReactDistance)

\* updates left in the session
TicksLeft == pillar_speed > Sp(PILLAR_SPEED_INIT) + MaxTicks * PILLAR_ACCELERATION

\* the event loop calls update; while the jump key is held its repeat has
\* been delivered since the last update
Tick ==
    /\ game_over \/ TicksLeft
    /\ (~game_over /\ space_held) => player.velocity.y = Px(JUMP_AMOUNT)
    /\ Update
    /\ UNCHANGED space_held

\* the jump key goes down
PressSpace ==
    /\ ~space_held
    /\ game_over \/ AtStart \/ PillarAhead
    /\ KeyDownEvent("Space")
    /\ space_held' = TRUE

\* the held jump key repeats
RepeatSpace ==
    /\ space_held
    /\ KeyDownEvent("Space")
    /\ UNCHANGED space_held

\* the jump key goes up
ReleaseSpace ==
    /\ space_held
    /\ game_over
    /\ KeyUpEvent("Space")
    /\ space_held' = FALSE

\* a colour key goes down
PressControl ==
    /\ game_over \/ PillarAhead
    /\ \E keycode \in {"LControl", "RControl"} : KeyDownEvent(keycode)
    /\ UNCHANGED space_held

\* the restart key goes down
PressReturn ==
    /\ KeyDownEvent("Return")
    /\ UNCHANGED space_held

\* a key other than the jump key goes up
KeyUp ==
    \E keycode \in KeyCodes \ {"Space"} :
        /\ KeyUpEvent(keycode)
        /\ UNCHANGED space_held

Next ==
    \/ Tick
    \/ PressSpace
    \/ RepeatSpace
    \/ ReleaseSpace
    \/ PressControl
    \/ PressReturn
    \/ KeyUp

Spec == Init /\ [][Next]_vars

\* a session in which no key is ever touched: the event loop keeps calling
\* update (timer::check_update_time yields 60 updates a second)
NoKeySpec == Init /\ [][Tick]_vars /\ WF_vars(Tick)

(* ------------------------------- claims -------------------------------- *)

\* a step of Spec that is an update of a session being played
IsTick == ~game_over /\ pillar_speed' = pillar_speed + PILLAR_ACCELERATION

\* pillar i was wrapped back to the right by the step
Wrapped(i) == pillars'[i].top.x > pillars[i].top.x

\* the two rectangles overlap strictly on both axes
Overlap(a, b) ==
    /\ a.x < b.x + b.w
    /\ b.x < a.x + a.w
    /\ a.y < b.y + b.h
    /\ b.y < a.y + a.h

\* the x-extents of the two rectangles overlap
OverlapX(a, b) == a.x < b.x + b.w /\ b.x < a.x + a.w

\* the gap invariant of one pillar
GapOk(pillar) ==
    /\ pillar.bottom.y = pillar.top.h + Px(PILLAR_GAP)
    /\ pillar.bottom.h = Px(WINDOW_HEIGHT) - pillar.bottom.y
    /\ 0 <= pillar.top.h
    /\ pillar.top.h < Px(WINDOW_HEIGHT - PILLAR_GAP)

\* C1: in every reachable state every pillar has bottom.y = top.h + PILLAR_GAP
\* and bottom.h = WINDOW_HEIGHT - bottom.y, with top.h in
\* [0, WINDOW_HEIGHT - PILLAR_GAP).
C1_GapInvariant == \A i \in PillarIdx : GapOk(pillars[i])

\* C1 witness: pillar 0 has been recycled behind the last pillar, with a
\* height other than that of the pillar it followed.
C1_Witness ==
    /\ pillars[0].top.x > pillars[NUM_PILLARS - 1].top.x
    /\ pillars[0].top.h # pillars[NUM_PILLARS - 1].top.h
    /\ ~game_over

\* C2: in an update of a session being played, a pillar that (where the
\* update has put it) overlaps the player's x-extent and has another colour
\* than the player makes game_over true, wherever the player is vertically.
C2_ColorMismatchFatal ==
    [][IsTick =>
          ((\E i \in PillarIdx :
                /\ OverlapX(player.body, pillars'[i].top)
                /\ pillars'[i].color # player.color)
             => game_over')]_vars

\* C2 witness: the game is over with a pillar of another colour over the
\* player, the player being far above the window, clear of both blocks.
C2_Witness ==
    /\ game_over
    /\ player.body.y + player.body.h < -Px(PLAYER_SIZE)
    /\ \E i \in PillarIdx :
          /\ OverlapX(player.body, pillars[i].top)
          /\ pillars[i].color # player.color

\* C3: in an update of a session being played in which every pillar over
\* the player's x-extent has the player's colour, game_over becomes true
\* if and only if the player's body overlaps the top or bottom block of
\* such a pillar.
C3_SameColorCollision ==
    [][(/\ IsTick
        /\ \A i \in PillarIdx :
              OverlapX(player.body, pillars'[i].top)
                 => pillars'[i].color = player.color)
          => (game_over' <=>
                \E i \in PillarIdx :
                    /\ OverlapX(player.body, pillars'[i].top)
                    /\ \/ Overlap(player.body, pillars'[i].top)
                       \/ Overlap(player.body, pillars'[i].bottom))]_vars

\* C3 witness: the game is over although the pillar over the player has the
\* player's colour: the player rose through the gap into the top block.
C3_Witness ==
    /\ game_over
    /\ \E i \in PillarIdx : Overlap(player.body, pillars[i].top)
    /\ \A i \in PillarIdx :
          OverlapX(player.body, pillars[i].top)
             => pillars[i].color = player.color

\* C4: between two recycles of a pillar (or from the session's start to its
\* first recycle) the score is incremented at most once on its account.
C4_ScoreAtMostOncePerPass == \A i \in PillarIdx : passes[i] <= 1

\* C4 witness: two pillars have passed and scored once each.
C4_Witness ==
    /\ score = 2
    /\ passes[0] = 1
    /\ passes[1] = 1
    /\ ~game_over

\* the horizontal centre of pillar i is left of the player's
Passed(i) ==
    pillars[i].top.x + pillars[i].top.w \div 2
        < player.body.x + player.body.w \div 2

\* C5: whenever the horizontal centre of a pillar has moved from the right
\* of the player's centre to its left, the score has been incremented
\* exactly once for that crossing.
C5_EveryPassScores == \A i \in PillarIdx : Passed(i) => passes[i] = 1

\* the pillar in front of pillar i in the cyclic order
Pred(i) == IF i = 0 THEN NUM_PILLARS - 1 ELSE i - 1

\* C6: after an update that recycles a pillar, its x minus the x of its
\* cyclic predecessor is exactly PILLAR_DISTANCE.
C6_RecycleSpacing ==
    [][IsTick =>
          \A i \in PillarIdx :
              Wrapped(i) =>
                  pillars'[i].top.x - pillars'[Pred(i)].top.x
                      = Px(PILLAR_DISTANCE)]_vars

\* C7: an update recycles a pillar exactly when its top block's right edge,
\* moved by the speed, is at x <= 0: then top.x and bottom.x become
\* predecessor_x + PILLAR_DISTANCE, the colour is one of the palette and the
\* gap-top height is in [0, WINDOW_HEIGHT - PILLAR_GAP); otherwise only top.x
\* and bottom.x change, each by exactly the speed.
C7_PillarAdvance ==
    [][IsTick =>
          \A i \in PillarIdx :
              LET old == pillars[i]
                  new == pillars'[i]
              IN  IF Add(AddSpeed(old.top.x, pillar_speed'), Px(PILLAR_WIDTH)) <= 0
                  THEN /\ new.top.x = Add(pillars[Pred(i)].top.x, Px(PILLAR_DISTANCE))
                       /\ new.bottom.x = Add(pillars[Pred(i)].top.x, Px(PILLAR_DISTANCE))
                       /\ \E c \in 1 .. Len(colors_list) : new.color = colors_list[c]
                       /\ 0 <= new.top.h
                       /\ new.top.h < Px(WINDOW_HEIGHT - PILLAR_GAP)
                  ELSE /\ new.top.x = AddSpeed(old.top.x, pillar_speed')
                       /\ new.bottom.x = AddSpeed(old.bottom.x, pillar_speed')
                       /\ new.color = old.color
                       /\ new.top.y = old.top.y
                       /\ new.top.w = old.top.w
                       /\ new.top.h = old.top.h
                       /\ new.bottom.y = old.bottom.y
                       /\ new.bottom.w = old.bottom.w
                       /\ new.bottom.h = old.bottom.h]_vars

\* C7 witness: pillar 1 has been recycled behind pillar 0, with another
\* colour than before (pillar 2, not yet recycled, is now ahead of it).
C7_Witness ==
    /\ pillars[1].top.x > pillars[0].top.x
    /\ pillars[0].top.x > pillars[NUM_PILLARS - 1].top.x
    /\ pillars[1].color # pillars[0].color
    /\ ~game_over

\* the program state of a session just constructed
Fresh ==
    /\ score = 0
    /\ ~game_over
    /\ pillar_speed = Sp(PILLAR_SPEED_INIT)
    /\ player.body = Rect(Px(WINDOW_WIDTH) \div 2, Px(WINDOW_HEIGHT) \div 2,
                          Px(PLAYER_SIZE), Px(PLAYER_SIZE))
    /\ player.velocity = [x |-> 0, y |-> 0]
    /\ DOMAIN pillars = 0 .. 4
    /\ \A i \in DOMAIN pillars :
          /\ pillars[i].top.x = Px(WINDOW_WIDTH) + i * Px(PILLAR_DISTANCE)
          /\ pillars[i].bottom.x = pillars[i].top.x
          /\ GapOk(pillars[i])

\* C8: a step that changes the program state while the game is over (the
\* restart key) yields score 0, game_over false, the initial scroll speed,
\* the player at the start position with zero velocity, and 5 pillars at
\* x = WINDOW_WIDTH + i * PILLAR_DISTANCE that satisfy the gap invariant.
C8_Restart == [][(game_over /\ progvars' # progvars) => Fresh']_vars

\* C8 witness: a session restarted with the jump key still down from the
\* session before (no event of the new session has been handled yet).
C8_Witness == Fresh /\ space_held /\ score_text = << 0 >>

\* the step is the jump of key_down_event: only velocity.y changes
JumpStep ==
    /\ player' = [player EXCEPT !.velocity.y = Px(JUMP_AMOUNT)]
    /\ UNCHANGED << pillars, pillar_speed, game_over, score, score_text,
                    intro_pos, intro_offscreen >>

\* the step is the colour switch of key_down_event: only the colour changes
SwitchStep ==
    /\ player' =
          [player EXCEPT
              !.color_index = (player.color_index + 1) % 5,
              !.color = colors_list[((player.color_index + 1) % 5) + 1]]
    /\ UNCHANGED << pillars, pillar_speed, game_over, score, score_text,
                    intro_pos, intro_offscreen >>

\* C9: game_over goes from false to true only in an update that detects a
\* collision, and from true to false only by the restart in GameOver; during
\* play a step is an update, a jump or a colour switch, or changes nothing
\* (so the restart key changes nothing).
C9_Modes ==
    [][/\ (~game_over /\ game_over') =>
             /\ pillar_speed' = pillar_speed + PILLAR_ACCELERATION
             /\ \E i \in PillarIdx :
                   /\ OverlapX(player.body, pillars'[i].top)
                   /\ \/ pillars'[i].color # player.color
                      \/ Overlap(player.body, pillars'[i].top)
                      \/ Overlap(player.body, pillars'[i].bottom)
       /\ (game_over /\ ~game_over') => Fresh'
       /\ (~game_over /\ ~game_over') =>
             \/ pillar_speed' = pillar_speed + PILLAR_ACCELERATION
             \/ JumpStep
             \/ SwitchStep
             \/ UNCHANGED progvars]_vars

\* C9 witness: a session lost, by an update, after its first point.
C9_Witness == game_over /\ score = 1 /\ space_held

\* C10: while game_over is true every step but the restart (an update, a
\* jump key, a colour key, a key release) leaves the session state unchanged.
C10_GameOverFrozen == [][(game_over /\ game_over') => UNCHANGED progvars]_vars

\* C10 witness: the game is over and the jump key, held when the game was
\* lost in mid-air, has been released since.
C10_Witness ==
    /\ game_over
    /\ ~space_held
    /\ player.velocity.y = Px(JUMP_AMOUNT) + Px(GRAVITY)

C12_ColorMatchesIndex ==
    /\ player.color_index \in 0 .. (Len(colors_list) - 1)
    /\ player.color = colors_list[player.color_index + 1]

\* C12 witness: the player has switched to a colour that no draw gives.
C12_Witness ==
    /\ ~game_over
    /\ player.color_index \notin IndexDraws
    /\ player.color = colors_list[player.color_index + 1]

\* C13: a step of a session being played that changes color_index is a colour
\* switch: it advances color_index by one modulo the palette's length and
\* sets the colour to that palette entry; as many switches in a row as the
\* palette has entries (5) lead back to the same colour.
C13_SwitchCycles ==
    [][(~game_over /\ player'.color_index # player.color_index)
          => /\ player'.color_index = (player.color_index + 1) % 5
             /\ player'.color = colors_list[player'.color_index + 1]
             /\ UNCHANGED << player.body, player.velocity >>
             /\ SwitchColor(SwitchColor(SwitchColor(SwitchColor(
                    SwitchColor(player'))))) = player']_vars

\* C13 witness: the player has the last colour of the palette, from which
\* a switch wraps around to the first.
C13_Witness ==
    /\ ~game_over
    /\ player.color_index = Len(colors_list) - 1
    /\ player.color = colors_list[Len(colors_list)]

\* the player's bottom edge is at or beyond the window's bottom edge
OnFloor == player.body.y + player.body.h >= Px(WINDOW_HEIGHT)

\* C14: in a session without key input the player's velocity.y is never below
\* -GRAVITY at the end of an update, and it is -GRAVITY at the end of every
\* update that leaves the body's bottom edge at or beyond WINDOW_HEIGHT.
C14_SoftFloor ==
    /\ player.velocity.y >= -Px(GRAVITY)
    /\ OnFloor => player.velocity.y = -Px(GRAVITY)

\* C14 witness: the fall has carried the player's bottom edge beyond the
\* window's bottom edge, and the floor has reset the velocity.
C14_Witness ==
    /\ ~game_over
    /\ player.body.y + player.body.h > Px(WINDOW_HEIGHT)
    /\ player.velocity.y = -Px(GRAVITY)

\* C15: a step of a session being played that moves a pillar or the player
\* (an update) changes pillar_speed by exactly PILLAR_ACCELERATION, and the
\* pillars it does not recycle move by the speed so changed; a step that
\* changes pillar_speed during play lowers it by PILLAR_ACCELERATION, and
\* only the restart raises it (up to the MaxTicks updates of a session there
\* is no cap).
C15_SpeedMonotone ==
    [][/\ (~game_over /\ (pillars' # pillars \/ player'.body # player.body))
            => /\ pillar_speed' = pillar_speed + PILLAR_ACCELERATION
               /\ \A i \in PillarIdx :
                     \/ Wrapped(i)
                     \/ pillars'[i].top.x
                            = AddSpeed(pillars[i].top.x, pillar_speed')
       /\ (~game_over /\ pillar_speed' # pillar_speed)
            => pillar_speed' = pillar_speed + PILLAR_ACCELERATION
       /\ pillar_speed' > pillar_speed
            => game_over /\ Fresh']_vars

\* C15 witness: a session still played after 500 updates, its speed lowered
\* 500 times.
C15_Witness ==
    /\ ~game_over
    /\ pillar_speed = Sp(PILLAR_SPEED_INIT) + 500 * PILLAR_ACCELERATION

\* C16: once intro_offscreen is true it is true in every later state, whatever
\* updates and key events follow.
C16_LatchForever == [][intro_offscreen => intro_offscreen']_vars

\* C16, amended: once intro_offscreen is true it stays true until the session
\* is restarted (the restart shows the caption again).
C16_LatchUntilRestart ==
    [][(intro_offscreen /\ ~(game_over /\ ~game_over')) => intro_offscreen']_vars

\* C16 witness: a session lost after its caption went off-screen, the
\* caption still hidden; the restart key comes next.
C16_Witness == intro_offscreen /\ game_over /\ space_held

\* C17: in an update that increments the score and leaves game_over false,
\* the player's body (where the update finds it) lies vertically inside the
\* gap of every pillar that scores: body.y >= top.h and
\* body.y + body.h <= bottom.y.
C17_PassOnlyThroughGap ==
    [][(IsTick /\ score' > score /\ ~game_over')
          => \A i \in PillarIdx :
                (/\ OverlapX(player.body, pillars'[i].top)
                 /\ Trunc(player.body.x) + Trunc(player.body.w \div 2)
                      = Trunc(pillars'[i].top.x) + Trunc(pillars'[i].top.w \div 2))
                   => /\ player.body.y >= pillars'[i].top.h
                      /\ player.body.y + player.body.h
                            <= pillars'[i].bottom.y]_vars

\* C18: a session without key input eventually reaches GameOver, the event
\* loop calling update again and again.
C18_NoInputEventuallyOver == <>game_over

\* C18 witness: the game is over with the player on the floor, in the bottom
\* block of a pillar of its own colour.
C18_Witness ==
    /\ game_over
    /\ OnFloor
    /\ ~space_held
    /\ \E i \in PillarIdx :
          /\ pillars[i].color = player.color
          /\ Overlap(player.body, pillars[i].bottom)

\* the distance between the x positions of pillars i and j
Spacing(i, j) ==
    IF pillars[i].top.x >= pillars[j].top.x
    THEN pillars[i].top.x - pillars[j].top.x
    ELSE pillars[j].top.x - pillars[i].top.x

\* no two pillars overlap, and at most one pillar is over the player's
\* x-extent
PillarsApart ==
    /\ \A i, j \in PillarIdx :
          i # j => ~OverlapX(pillars[i].top, pillars[j].top)
    /\ \A i, j \in PillarIdx :
          (/\ OverlapX(player.body, pillars[i].top)
           /\ OverlapX(player.body, pillars[j].top)) => i = j

\* C19: in every reachable state the x positions of any two distinct pillars
\* differ by at least PILLAR_DISTANCE, so that no two pillars overlap and at
\* most one pillar is over the player's x-extent.
C19_SpacingAtLeastDistance ==
    /\ \A i, j \in PillarIdx : i # j => Spacing(i, j) >= Px(PILLAR_DISTANCE)
    /\ PillarsApart

\* C19, amended: the x positions of any two distinct pillars differ by at
\* least PILLAR_DISTANCE less the rounding of the f32 additions (under 1/1024
\* of a unit), so that no two pillars overlap and at most one pillar is over
\* the player's x-extent.
C19_SpacingWithinRounding ==
    /\ \A i, j \in PillarIdx :
          i # j => Spacing(i, j) > Px(PILLAR_DISTANCE) - Scale \div 1024
    /\ PillarsApart

\* C19 witness: a session being played in which two pillars are less than
\* PILLAR_DISTANCE apart.
C19_Witness ==
    /\ ~game_over
    /\ \E i, j \in PillarIdx : i # j /\ Spacing(i, j) < Px(PILLAR_DISTANCE)

\* C20: an update of a session being played that finds the player's bottom
\* edge at or beyond WINDOW_HEIGHT, no jump having been made since the update
\* before, leaves body.y unchanged (and so the bottom edge where it was).
C20_FloorHolds ==
    [][(IsTick /\ OnFloor /\ player.velocity.y # Px(JUMP_AMOUNT))
          => /\ player'.body.y = player.body.y
             /\ OnFloor']_vars

\* C20 witness: the player still lies on the floor 300 updates into the
\* session, at the depth it reached when it landed.
C20_Witness ==
    /\ ~game_over
    /\ OnFloor
    /\ player.velocity.y = -Px(GRAVITY)
    /\ pillar_speed = Sp(PILLAR_SPEED_INIT) + 300 * PILLAR_ACCELERATION

====
